---- MODULE Spec2Model ----
(***************************************************************************)
(* Model of government_analysis.py: the keyword classifier, the cached     *)
(* feed fetcher fetch_news, the two dashboard tabs that call it, and the   *)
(* correction table that is loaded from and saved to corrected_labels.csv. *)
(*                                                                         *)
(* Text is a sequence of one-character strings, so that lower-casing and   *)
(* substring search are computed character by character.  Time is counted  *)
(* in ticks of half a second, the length of the sleep in fetch_news.       *)
(***************************************************************************)
EXTENDS Integers, Sequences, FiniteSets, TLC

VARIABLES
    text,               \* classify_governance_sentiment: argument text
    category,           \* classify_governance_sentiment: argument category
    label,              \* classify_governance_sentiment: returned label
    feeds,              \* upstream: rss_url -> entries the feed serves now
    now,                \* wall clock (UTC), in ticks
    cache,              \* st.cache_data store of fetch_news
    pc,                 \* position of the script run
    runs,               \* script runs started so far
    selected_category,  \* fetch_news argument
    days_filter,        \* fetch_news argument
    rss_i,              \* fetch_news: index of rss_url in search_queries[..]
    feed,               \* fetch_news: feed.entries of the current rss_url
    entry_i,            \* fetch_news: index of entry in feed.entries
    all_news,           \* fetch_news: set of titles already added
    news_data,          \* fetch_news: rows collected so far
    fetched,            \* what the fetch_news call returned to the tab
    df_selected,        \* tab: rows left after the isin() filter
    warning,            \* tab: whether st.warning was shown
    feedback_file,      \* corrected_labels.csv on disk
    feedback_df,        \* the correction table in memory
    log,                \* history: entries processed by the running fetch_news
    retrieved,          \* history: feedparser.parse calls of the current call
    called_at,          \* history: clock when the current call was made
    prior,              \* history: outcome[key] when the current call was made
    outcome,            \* history: key -> last computation of fetch_news
    saved_grid          \* history: grid written by the last Save Corrections

vars == <<text, category, label, feeds, now, cache, pc, runs, selected_category,
          days_filter, rss_i, feed, entry_i, all_news, news_data, fetched,
          df_selected, warning, feedback_file, feedback_df, log, retrieved,
          called_at, prior, outcome, saved_grid>>

classifyVars == <<text, category, label>>
appVars == <<feeds, now, cache, pc, runs, selected_category, days_filter, rss_i,
             feed, entry_i, all_news, news_data, fetched, df_selected, warning,
             feedback_file, feedback_df, log, retrieved, called_at, prior,
             outcome, saved_grid>>

----------------------------------------------------------------------------
(* Strings                                                                 *)

UpperLetters == <<"A","B","C","D","E","F","G","H","I","J","K","L","M",
                  "N","O","P","Q","R","S","T","U","V","W","X","Y","Z">>
LowerLetters == <<"a","b","c","d","e","f","g","h","i","j","k","l","m",
                  "n","o","p","q","r","s","t","u","v","w","x","y","z">>

IsUpper(c) == \E i \in DOMAIN UpperLetters : UpperLetters[i] = c

\* str.lower() on one character
LowerChar(c) ==
    IF IsUpper(c)
    THEN LowerLetters[CHOOSE i \in DOMAIN UpperLetters : UpperLetters[i] = c]
    ELSE c

\* str.lower()
Lower(s) == [i \in 1..Len(s) |-> LowerChar(s[i])]

\* word in s
Contains(s, word) ==
    \E i \in 1..(Len(s) - Len(word) + 1) : SubSeq(s, i, i + Len(word) - 1) = word

\* any(word in text.lower() for word in words)
AnyWordIn(words, s) == \E k \in DOMAIN words : Contains(Lower(s), words[k])

----------------------------------------------------------------------------
(* classify_governance_sentiment                                           *)

GovtAnalysis == "Govt Analysis"
Protests == "Protests Against Government"
Topics == {GovtAnalysis, Protests}

Misgovernance == "Misgovernance (TN Govt Only)"
GoodGovernance == "Good Governance (TN Govt Only)"
AntiState == "Anti TN State Government"
AntiCentral == "Anti Central Government"
GeneralProtest == "General Protest"
None == "None"

MisgovernanceWords == <<
    <<"f","a","i","l","u","r","e">>,
    <<"m","i","s","g","o","v","e","r","n","a","n","c","e">>,
    <<"c","o","r","r","u","p","t","i","o","n">>,
    <<"c","o","n","t","r","o","v","e","r","s","y">> >>

GoodGovernanceWords == <<
    <<"s","u","c","c","e","s","s">>,
    <<"a","c","h","i","e","v","e","m","e","n","t">>,
    <<"d","e","v","e","l","o","p","m","e","n","t">>,
    <<"g","r","o","w","t","h">> >>

StateWords == <<
    <<"d","m","k">>,
    <<"s","t","a","l","i","n">>,
    <<"t","a","m","i","l"," ","n","a","d","u"," ","g","o","v","e","r","n","m","e","n","t">> >>

CentralWords == <<
    <<"m","o","d","i">>,
    <<"b","j","p"," ","g","o","v","e","r","n","m","e","n","t">>,
    <<"c","e","n","t","r","a","l"," ","g","o","v","e","r","n","m","e","n","t">> >>

\* classify_governance_sentiment with the branches of a topic in the other
\* order: the faults the priority claims must tell from the code.
classify_good_first(t, c) ==
    IF c = GovtAnalysis
    THEN IF AnyWordIn(GoodGovernanceWords, t) THEN GoodGovernance
         ELSE IF AnyWordIn(MisgovernanceWords, t) THEN Misgovernance
         ELSE None
    ELSE IF c = Protests
    THEN IF AnyWordIn(StateWords, t) THEN AntiState
         ELSE IF AnyWordIn(CentralWords, t) THEN AntiCentral
         ELSE GeneralProtest
    ELSE None

classify_central_first(t, c) ==
    IF c = GovtAnalysis
    THEN IF AnyWordIn(MisgovernanceWords, t) THEN Misgovernance
         ELSE IF AnyWordIn(GoodGovernanceWords, t) THEN GoodGovernance
         ELSE None
    ELSE IF c = Protests
    THEN IF AnyWordIn(CentralWords, t) THEN AntiCentral
         ELSE IF AnyWordIn(StateWords, t) THEN AntiState
         ELSE GeneralProtest
    ELSE None

classify_governance_sentiment(t, c) ==
    IF c = GovtAnalysis
    THEN IF AnyWordIn(MisgovernanceWords, t) THEN Misgovernance
         ELSE IF AnyWordIn(GoodGovernanceWords, t) THEN GoodGovernance
         ELSE None
    ELSE IF c = Protests
    THEN IF AnyWordIn(StateWords, t) THEN AntiState
         ELSE IF AnyWordIn(CentralWords, t) THEN AntiCentral
         ELSE GeneralProtest
    ELSE None

----------------------------------------------------------------------------
(* Time, feeds and the memo of fetch_news                                  *)

TicksPerSecond == 2
SleepTicks == 1
ttl == 1800
Day == 86400 * TicksPerSecond

search_queries ==
    [t \in Topics |->
        IF t = GovtAnalysis THEN <<"q=failure..controversy", "q=success..growth">>
        ELSE <<"q=protest..rally">>]

Urls == {"q=failure..controversy", "q=success..growth", "q=protest..rally"}

time_options == {1, 10, 30, 60, 90}

\* entry.published: a string in the format of line 52 that names the time t,
\* or a string that strptime rejects
WellFormed(t) == [wf |-> TRUE, t |-> t]
Malformed == [wf |-> FALSE, t |-> 0]

\* a lenient parser, as a fault: the call goes on past a bad date
strptime_never_raises(published) == FALSE

\* datetime.strptime(entry.published, "%a, %d %b %Y %H:%M:%S %Z") raises
strptime_raises(published) == ~published.wf

\* (datetime.utcnow() - published_date).days: timedelta.days is the floor
days_ago_of(utcnow, published_date) == (utcnow - published_date) \div Day

\* the comparison made strict, as a fault
AgeOk_strict(days_ago, max_age) == days_ago < max_age

\* if days_ago <= days_filter
AgeOk(days_ago, max_age) == days_ago <= max_age

\* the title check left out, as a fault
IsNew_always(title, seen) == TRUE

\* if entry.title not in all_news
IsNew(title, seen) == title \notin seen

\* the label check left out, as a fault
HasLabel_always(sentiment_label) == TRUE

\* if sentiment_label
HasLabel(sentiment_label) == sentiment_label # None

\* published_date.date()
date(published_date) == published_date \div Day

Row(cat, entry, sentiment_label) ==
    [Category |-> cat, Title |-> entry.title,
     PublishedDate |-> date(entry.published.t), URL |-> entry.link,
     Sentiment |-> sentiment_label]

\* rows inserted at the front, as a fault
AppendRow_front(rows, row) == <<row>> \o rows

\* news_data.append({...})
AppendRow(rows, row) == Append(rows, row)

\* the sleep moved out of the age test, as a variant
SleepAfter_every(in_window) == TRUE

\* time.sleep(0.5) stands inside "if days_ago <= days_filter"
SleepAfter(in_window) == in_window

\* a memo that never expires, as a fault
CacheFresh_forever(stored, t) == TRUE

\* st.cache_data(ttl=1800): an entry answers while it is younger than ttl
CacheFresh(stored, t) == t - stored < ttl * TicksPerSecond

\* st.cache_data keys an entry by the arguments of the call
CacheKey(cat, days) == <<cat, days>>

Keys == Topics \X time_options
NoEntry == [has |-> FALSE]
NotReturned == [returned |-> FALSE]
Returned(table) == [returned |-> TRUE, table |-> table]
Never == [kind |-> "never"]

ShowPc(cat) == IF cat = GovtAnalysis THEN "tab1_show" ELSE "tab2_show"

ExpectedLabels(cat) ==
    IF cat = GovtAnalysis THEN {GoodGovernance, Misgovernance}
    ELSE {AntiState, AntiCentral, GeneralProtest}

----------------------------------------------------------------------------
(* corrected_labels.csv: DataFrame.to_csv(index=False) and pd.read_csv     *)

Quote == "\""
Comma == ","
NewLine == "\n"
BOM == "BOM"

\* a cell of the correction table: a string, a missing value (None / NaN),
\* or an integer (what read_csv makes of a column of digits)
StrCell(s) == [k |-> "str", s |-> s, n |-> 0]
NaNCell == [k |-> "nan", s |-> << >>, n |-> 0]
IntCell(n) == [k |-> "int", s |-> << >>, n |-> n]

GridRow(title, sentiment) == [Title |-> title, Sentiment |-> sentiment]
EmptyGrid == << >>

Digits == <<"0","1","2","3","4","5","6","7","8","9">>
IsDigit(c) == \E i \in DOMAIN Digits : Digits[i] = c
DigitValue(c) == (CHOOSE i \in DOMAIN Digits : Digits[i] = c) - 1

RECURSIVE Decimal(_)
Decimal(n) ==
    IF n < 10 THEN <<Digits[n + 1]>>
    ELSE Append(Decimal(n \div 10), Digits[(n % 10) + 1])

RECURSIVE Doubled(_)
\* the csv writer doubles every quote of a quoted field
Doubled(s) ==
    IF s = << >> THEN << >>
    ELSE (IF Head(s) = Quote THEN <<Quote, Quote>> ELSE <<Head(s)>>) \o Doubled(Tail(s))

NeedsQuotes(s) == \E i \in DOMAIN s : s[i] \in {Comma, Quote, NewLine}

\* one field as to_csv writes it (QUOTE_MINIMAL, na_rep = "")
Field(cell) ==
    IF cell.k = "nan" THEN << >>
    ELSE IF cell.k = "int" THEN Decimal(cell.n)
    ELSE IF NeedsQuotes(cell.s) THEN <<Quote>> \o Doubled(cell.s) \o <<Quote>>
    ELSE cell.s

HeaderLine ==
    <<"T","i","t","l","e",",","C","o","r","r","e","c","t","e","d"," ",
      "S","e","n","t","i","m","e","n","t","\n">>

RECURSIVE Lines(_)
Lines(grid) ==
    IF grid = << >> THEN << >>
    ELSE Field(Head(grid).Title) \o <<Comma>> \o Field(Head(grid).Sentiment)
            \o <<NewLine>> \o Lines(Tail(grid))

\* feedback_df.to_csv(feedback_file, index=False): header, then one line a row
to_csv(grid) == [exists |-> TRUE, utf8 |-> TRUE, text |-> HeaderLine \o Lines(grid)]

NoFile == [exists |-> FALSE, utf8 |-> TRUE, text |-> << >>]

\* The tokenizer of read_csv.  A character stands outside of quotes when an
\* even number of quotes precedes it: a quoted field opens and closes with a
\* quote and doubles every quote inside.  (A quote in the middle of an
\* unquoted field, which to_csv never writes, is not modelled.)
Outside(txt, i) == Cardinality({j \in 1..(i - 1) : txt[j] = Quote}) % 2 = 0

\* the k-th smallest element of a set of numbers
Nth(set, k) == CHOOSE e \in set : Cardinality({x \in set : x < e}) = k - 1

\* txt cut at the separators sep that stand outside of quotes
Split(txt, sep) ==
    LET cuts == {i \in DOMAIN txt : txt[i] = sep /\ Outside(txt, i)}
        ends == cuts \cup {Len(txt) + 1}
    IN  [k \in 1..Cardinality(ends) |->
            SubSeq(txt, (IF k = 1 THEN 0 ELSE Nth(ends, k - 1)) + 1, Nth(ends, k) - 1)]

\* a quoted field without its quotes, "" read as one quote
Unquoted(fld) ==
    IF fld # << >> /\ Head(fld) = Quote
    THEN LET body == SubSeq(fld, 2, Len(fld) - 1)
             kept == {j \in DOMAIN body :
                         ~(body[j] = Quote /\ ~Outside(body, j))}
         IN  [k \in 1..Cardinality(kept) |-> body[Nth(kept, k)]]
    ELSE fld

\* the records of the file: its lines that are not blank, each a sequence
\* of fields
Records(txt) ==
    LET NotBlank(line) == line # << >>
        lines == SelectSeq(Split(txt, NewLine), NotBlank)
    IN  [r \in 1..Len(lines) |->
            LET flds == Split(lines[r], Comma)
            IN  [j \in 1..Len(flds) |-> Unquoted(flds[j])]]

\* the strings read_csv reads as a missing value (keep_default_na=True)
NaValues == {
    << >>, <<"N","A">>, <<"N","/","A">>, <<"n","/","a">>, <<"N","U","L","L">>,
    <<"n","u","l","l">>, <<"N","a","N">>, <<"n","a","n">>, <<"N","o","n","e">>,
    <<"<","N","A",">">>, <<"#","N","A">>, <<"#","N","/","A">>,
    <<"-","N","a","N">>, <<"-","n","a","n">> }

IsNa(fld) == fld \in NaValues
IsInteger(fld) == fld # << >> /\ \A i \in DOMAIN fld : IsDigit(fld[i])

RECURSIVE IntOf(_)
IntOf(fld) ==
    IF fld = << >> THEN 0
    ELSE 10 * IntOf(SubSeq(fld, 1, Len(fld) - 1)) + DigitValue(fld[Len(fld)])

\* field j of a record; a short record is padded with missing values
FieldAt(rec, j) == IF j <= Len(rec) THEN rec[j] ELSE << >>

\* dtype inference: a column whose present values are all integers is numeric
NumericColumn(recs, j) ==
    /\ \E r \in DOMAIN recs : ~IsNa(FieldAt(recs[r], j))
    /\ \A r \in DOMAIN recs : IsNa(FieldAt(recs[r], j)) \/ IsInteger(FieldAt(recs[r], j))

CellOf(recs, r, j) ==
    LET fld == FieldAt(recs[r], j) IN
    IF IsNa(fld) THEN NaNCell
    ELSE IF NumericColumn(recs, j) THEN IntCell(IntOf(fld))
    ELSE StrCell(fld)

\* the text decoded as utf-8-sig: a leading byte order mark is dropped
decode_utf8_sig(txt) == IF txt # << >> /\ Head(txt) = BOM THEN Tail(txt) ELSE txt

\* pd.read_csv(feedback_file, encoding=...): the first record is the header
read_csv(txt) ==
    LET recs == Records(txt)
        data == Tail(recs)
    IN  [r \in 1..Len(data) |-> GridRow(CellOf(data, r, 1), CellOf(data, r, 2))]

\* lines 72-78: the table the script starts with
load_feedback(file) ==
    IF file.exists
    THEN IF file.utf8 THEN read_csv(decode_utf8_sig(file.text))
         ELSE read_csv(file.text)
    ELSE EmptyGrid

----------------------------------------------------------------------------
(* The classifier on its own: titles built from fragments                  *)

MaxFrags == 2

Fragments == {
    <<"C","o","r","r","u","p","t","i","o","n">>,
    <<"F","A","I","L","U","R","E">>,
    <<"m","i","s","g","o","v","e","r","n","a","n","c","e">>,
    <<"c","o","n","t","r","o","V","E","R","S","Y">>,
    <<"S","u","c","c","e","s","s">>,
    <<"a","c","h","i","e","v","e","m","e","n","t">>,
    <<"D","E","V","E","L","O","P","M","E","N","T">>,
    <<"g","r","o","w","t","h">>,
    <<"D","M","K">>,
    <<"S","t","a","l","i","n">>,
    <<"T","a","m","i","l"," ","N","a","d","u"," ","G","o","v","e","r","n","m","e","n","t">>,
    <<"M","o","d","i">>,
    <<"B","J","P"," ","g","o","v","e","r","n","m","e","n","t">>,
    <<"c","e","n","t","r","a","l"," ","G","O","V","E","R","N","M","E","N","T">>,
    <<"f","a","i","l">>,
    <<"U","r","e"," ">>,
    <<"G","r","o","w">>,
    <<"b","j","p">>,
    <<" ","g","o","v","e","r","n","m","e","n","t">>,
    <<"T","N"," ","r","a","l","l","y"," ">> }

RECURSIVE TitlesUpTo(_)
TitlesUpTo(n) ==
    IF n = 0 THEN {<< >>}
    ELSE LET shorter == TitlesUpTo(n - 1)
         IN  shorter \cup {t \o f : t \in shorter, f \in Fragments}

Unset == "unset"

----------------------------------------------------------------------------
(* C1, C2: what the claims say about a title, stated without lower()       *)

\* the same letter, in either case
SameLetter(a, b) ==
    \/ a = b
    \/ \E i \in DOMAIN UpperLetters :
          {a, b} = {UpperLetters[i], LowerLetters[i]}

\* the title has the word somewhere, in any letter case
HasWord(t, word) ==
    \E i \in 1..(Len(t) - Len(word) + 1) :
        \A j \in 1..Len(word) : SameLetter(t[i + j - 1], word[j])

HasAny(t, words) == \E k \in DOMAIN words : HasWord(t, words[k])

\* C1: under Govt Analysis a title with a Misgovernance keyword, in any letter
\* case, is labelled Misgovernance even when it also has a Good-Governance
\* keyword; Good Governance is returned only when no Misgovernance keyword is
\* present and a Good-Governance keyword is.
C1_MisgovernanceFirst ==
    (category = GovtAnalysis /\ label # Unset) =>
        /\ HasAny(text, MisgovernanceWords) => label = Misgovernance
        /\ label = GoodGovernance =>
              (~HasAny(text, MisgovernanceWords) /\ HasAny(text, GoodGovernanceWords))

C1_Witness ==
    /\ category = GovtAnalysis
    /\ label = Misgovernance
    /\ HasAny(text, MisgovernanceWords)
    /\ HasAny(text, GoodGovernanceWords)
    /\ ~Contains(text, MisgovernanceWords[1])
    /\ ~Contains(text, MisgovernanceWords[2])
    /\ ~Contains(text, MisgovernanceWords[3])
    /\ ~Contains(text, MisgovernanceWords[4])

\* C2: under Protests Against Government the label is never None: a state
\* keyword gives Anti State Government even beside a central keyword, else a
\* central keyword gives Anti Central Government, else General Protest.
C2_ProtestLabels ==
    (category = Protests /\ label # Unset) =>
        /\ label # None
        /\ HasAny(text, StateWords) => label = AntiState
        /\ (~HasAny(text, StateWords) /\ HasAny(text, CentralWords)) =>
              label = AntiCentral
        /\ (~HasAny(text, StateWords) /\ ~HasAny(text, CentralWords)) =>
              label = GeneralProtest

C2_Witness ==
    /\ category = Protests
    /\ label = AntiState
    /\ HasAny(text, StateWords)
    /\ HasAny(text, CentralWords)

----------------------------------------------------------------------------
(* The script run: lines 72-170, with fetch_news stepped entry by entry    *)

Key == CacheKey(selected_category, days_filter)
urls == search_queries[selected_category]

fetchLocals == <<rss_i, feed, entry_i, all_news, news_data>>
tabVars == <<df_selected, warning>>
feedbackVars == <<feedback_file, feedback_df, saved_grid>>
history == <<log, retrieved, called_at, prior, outcome>>

\* lines 72-78
LoadFeedback ==
    /\ pc = "start"
    /\ feedback_df' = load_feedback(feedback_file)
    /\ pc' = "tab1"
    /\ UNCHANGED <<feeds, now, cache, runs, selected_category, days_filter,
                   fetched, feedback_file, saved_grid>>
    /\ UNCHANGED <<fetchLocals, tabVars, history, classifyVars>>

\* fetch_news(cat, days) as st.cache_data wraps it: a fresh entry of the
\* memo answers the call, otherwise the body of fetch_news starts (46-47)
CallFetchNews(cat, days) ==
    LET key == CacheKey(cat, days) IN
    /\ selected_category' = cat
    /\ days_filter' = days
    /\ called_at' = now
    /\ prior' = outcome[<<cat, days>>]
    /\ retrieved' = 0
    /\ log' = << >>
    /\ IF cache[key].has /\ CacheFresh(cache[key].stored, now)
       THEN /\ fetched' = Returned(cache[key].value)
            /\ pc' = ShowPc(cat)
            /\ UNCHANGED <<cache, fetchLocals>>
       ELSE /\ fetched' = NotReturned
            /\ cache' = [cache EXCEPT ![key] = NoEntry]
            /\ all_news' = {}
            /\ news_data' = << >>
            /\ rss_i' = 1
            /\ pc' = "fetch_url"
            /\ UNCHANGED <<feed, entry_i>>
    /\ UNCHANGED <<feeds, now, runs, outcome>>
    /\ UNCHANGED <<tabVars, feedbackVars, classifyVars>>

\* lines 100-102
Tab1(choices) ==
    /\ pc = "tab1"
    /\ \E days \in choices : CallFetchNews(GovtAnalysis, days)

\* lines 124-126
Tab2(choices) ==
    /\ pc = "tab2"
    /\ \E days \in choices : CallFetchNews(Protests, days)

\* lines 49-50: feed = feedparser.parse(rss_url)
FetchFeed ==
    /\ pc = "fetch_url"
    /\ rss_i <= Len(urls)
    /\ feed' = feeds[urls[rss_i]]
    /\ entry_i' = 1
    /\ retrieved' = retrieved + 1
    /\ pc' = "fetch_entry"
    /\ UNCHANGED <<feeds, now, cache, runs, selected_category, days_filter,
                   rss_i, all_news, news_data, fetched, log, called_at, prior,
                   outcome>>
    /\ UNCHANGED <<tabVars, feedbackVars, classifyVars>>

\* lines 51-67: one entry of the feed
FetchEntry ==
    /\ pc = "fetch_entry"
    /\ entry_i <= Len(feed)
    /\ LET entry == feed[entry_i] IN
       IF strptime_raises(entry.published)
       THEN \* the ValueError leaves fetch_news and ends the script run
            /\ pc' = "crashed"
            /\ outcome' = [outcome EXCEPT
                   ![<<selected_category, days_filter>>] =
                       [kind |-> "error", lost |-> news_data]]
            /\ log' = Append(log, [entry |-> entry, at |-> now, parsed |-> FALSE,
                                   kept |-> FALSE, row |-> FALSE, slept |-> FALSE])
            /\ UNCHANGED <<now, entry_i, all_news, news_data>>
       ELSE LET published_date == entry.published.t
                days_ago == days_ago_of(now, published_date)
                in_window == AgeOk(days_ago, days_filter)
                sentiment_label ==
                    classify_governance_sentiment(entry.title, selected_category)
                add == /\ in_window
                       /\ IsNew(entry.title, all_news)
                       /\ HasLabel(sentiment_label)
            IN  /\ all_news' = IF add THEN all_news \cup {entry.title} ELSE all_news
                /\ news_data' =
                      IF add
                      THEN AppendRow(news_data,
                                     Row(selected_category, entry, sentiment_label))
                      ELSE news_data
                /\ now' = IF SleepAfter(in_window) THEN now + SleepTicks ELSE now
                /\ entry_i' = entry_i + 1
                /\ log' = Append(log, [entry |-> entry, at |-> now, parsed |-> TRUE,
                                       kept |-> in_window, row |-> add,
                                       slept |-> SleepAfter(in_window)])
                /\ UNCHANGED <<pc, outcome>>
    /\ UNCHANGED <<feeds, cache, runs, selected_category, days_filter, rss_i,
                   feed, fetched, retrieved, called_at, prior>>
    /\ UNCHANGED <<tabVars, feedbackVars, classifyVars>>

\* line 49: the entries of this rss_url are done, on to the next one
FetchNextUrl ==
    /\ pc = "fetch_entry"
    /\ entry_i > Len(feed)
    /\ rss_i' = rss_i + 1
    /\ pc' = "fetch_url"
    /\ UNCHANGED <<feeds, now, cache, runs, selected_category, days_filter,
                   feed, entry_i, all_news, news_data, fetched>>
    /\ UNCHANGED <<tabVars, feedbackVars, history, classifyVars>>

\* line 69: the table is returned, and st.cache_data stores it
FetchReturn ==
    /\ pc = "fetch_url"
    /\ rss_i > Len(urls)
    /\ fetched' = Returned(news_data)
    /\ cache' = [cache EXCEPT ![Key] = [has |-> TRUE, value |-> news_data, stored |-> now]]
    /\ outcome' = [outcome EXCEPT ![<<selected_category, days_filter>>] =
                      [kind |-> "ok", table |-> news_data, called |-> called_at,
                       stored |-> now]]
    /\ pc' = ShowPc(selected_category)
    /\ UNCHANGED <<feeds, now, runs, selected_category, days_filter, log,
                   retrieved, called_at, prior>>
    /\ UNCHANGED <<fetchLocals, tabVars, feedbackVars, classifyVars>>

\* df_selected[df_selected["Sentiment"].isin([...])]
isin_filter(table, labels) ==
    LET Expected(row) == row.Sentiment \in labels IN SelectSeq(table, Expected)

\* lines 103-118
Tab1Show ==
    /\ pc = "tab1_show"
    /\ df_selected' = isin_filter(fetched.table, ExpectedLabels(GovtAnalysis))
    /\ warning' = (df_selected' = << >>)
    /\ pc' = "tab2"
    /\ UNCHANGED <<feeds, now, cache, runs, selected_category, days_filter, fetched>>
    /\ UNCHANGED <<fetchLocals, feedbackVars, history, classifyVars>>

\* lines 127-163
Tab2Show ==
    /\ pc = "tab2_show"
    /\ df_selected' = isin_filter(fetched.table, ExpectedLabels(Protests))
    /\ warning' = (df_selected' = << >>)
    /\ pc' = "editor"
    /\ UNCHANGED <<feeds, now, cache, runs, selected_category, days_filter, fetched>>
    /\ UNCHANGED <<fetchLocals, feedbackVars, history, classifyVars>>

\* line 167: st.data_editor returns the table with the user's edits
Editor(grids) ==
    /\ pc = "editor"
    /\ feedback_df' \in grids \cup {feedback_df}
    /\ pc' = "button"
    /\ UNCHANGED <<feeds, now, cache, runs, selected_category, days_filter,
                   fetched, feedback_file, saved_grid>>
    /\ UNCHANGED <<fetchLocals, tabVars, history, classifyVars>>

\* lines 168-170: the button was pressed
SaveCorrections ==
    /\ pc = "button"
    /\ feedback_file' = to_csv(feedback_df)
    /\ saved_grid' = [saved |-> TRUE, grid |-> feedback_df]
    /\ pc' = "done"
    /\ UNCHANGED <<feeds, now, cache, runs, selected_category, days_filter,
                   fetched, feedback_df>>
    /\ UNCHANGED <<fetchLocals, tabVars, history, classifyVars>>

\* line 168: the button was not pressed
NoSave ==
    /\ pc = "button"
    /\ pc' = "done"
    /\ UNCHANGED <<feeds, now, cache, runs, selected_category, days_filter, fetched>>
    /\ UNCHANGED <<fetchLocals, tabVars, feedbackVars, history, classifyVars>>

\* an interaction of the user, some time after the run ended, makes the
\* script run again from line 1; the process, and with it the memo, lives on
Rerun(max_runs, spans) ==
    /\ pc \in {"done", "crashed"}
    /\ runs < max_runs
    /\ runs' = runs + 1
    /\ \E d \in spans : now' = now + d
    /\ pc' = "start"
    /\ UNCHANGED <<feeds, cache, selected_category, days_filter, fetched>>
    /\ UNCHANGED <<fetchLocals, tabVars, feedbackVars, history, classifyVars>>

\* the upstream service serves other entries for an rss_url
FeedUpdate(contents) ==
    /\ pc \in {"done", "crashed"}
    /\ \E u \in Urls, es \in contents :
          /\ es # feeds[u]
          /\ feeds' = [feeds EXCEPT ![u] = es]
    /\ UNCHANGED <<now, cache, pc, runs, selected_category, days_filter, fetched>>
    /\ UNCHANGED <<fetchLocals, tabVars, feedbackVars, history, classifyVars>>

\* the state the process starts in: nothing memoized, the script at line 1
AppStart(feeds0, files0, now0) ==
    /\ feeds \in feeds0
    /\ feedback_file \in files0
    /\ now = now0
    /\ cache = [k \in Keys |-> NoEntry]
    /\ outcome = [k \in Keys |-> Never]
    /\ pc = "start"
    /\ runs = 1
    /\ selected_category = GovtAnalysis
    /\ days_filter = 1
    /\ rss_i = 0 /\ feed = << >> /\ entry_i = 0
    /\ all_news = {} /\ news_data = << >>
    /\ fetched = NotReturned
    /\ df_selected = << >> /\ warning = FALSE
    /\ feedback_df = EmptyGrid
    /\ saved_grid = [saved |-> FALSE, grid |-> EmptyGrid]
    /\ log = << >> /\ retrieved = 0 /\ called_at = now0 /\ prior = Never

InitApp(feeds0, files0, now0) ==
    /\ AppStart(feeds0, files0, now0)
    /\ text = << >> /\ category = GovtAnalysis /\ label = Unset

----------------------------------------------------------------------------
(* One script run over every small assignment of entries to the feeds      *)

MaxEntries == 2

Now0 == 400 * Day + 3 * 3600 * TicksPerSecond

Ago(days, ticks) == WellFormed(Now0 - days * Day - ticks)

DmkCorruption == <<"D","M","K"," ","C","o","r","r","u","p","t","i","o","n">>
ModiGrowth == <<"M","o","d","i"," ","g","r","o","w","t","h">>
TnRally == <<"T","N"," ","r","a","l","l","y">>

Entry(title, published, link) ==
    [title |-> title, published |-> published, link |-> link]

EntryPool == {
    Entry(DmkCorruption, Ago(0, 10), "link1"),
    Entry(DmkCorruption, Ago(5, 0), "link2"),
    Entry(ModiGrowth, Ago(0, 20), "link3"),
    Entry(TnRally, Ago(1, 2), "link4"),
    Entry(ModiGrowth, Ago(100, 0), "link5"),
    Entry(TnRally, Malformed, "link6") }

FetchDays == {1, 10}

RECURSIVE SeqsOfLen(_, _)
SeqsOfLen(pool, k) ==
    IF k = 0 THEN {<< >>}
    ELSE {Append(es, e) : es \in SeqsOfLen(pool, k - 1), e \in pool}

\* every way to serve at most n entries of the pool over the three feeds
FeedAssignments(pool, n) ==
    UNION {
        {[u \in Urls |->
            IF u = search_queries[GovtAnalysis][1] THEN s1
            ELSE IF u = search_queries[GovtAnalysis][2] THEN s2
            ELSE s3] :
         s1 \in SeqsOfLen(pool, lens[1]),
         s2 \in SeqsOfLen(pool, lens[2]),
         s3 \in SeqsOfLen(pool, lens[3])} :
        lens \in {l \in (0..n) \X (0..n) \X (0..n) : l[1] + l[2] + l[3] <= n} }

InitFetch == InitApp(FeedAssignments(EntryPool, MaxEntries), {NoFile}, Now0)

NextFetch ==
    \/ LoadFeedback
    \/ Tab1(FetchDays)
    \/ FetchFeed
    \/ FetchEntry
    \/ FetchNextUrl
    \/ FetchReturn
    \/ Tab1Show
    \/ Tab2(FetchDays)
    \/ Tab2Show
    \/ Editor({EmptyGrid})
    \/ SaveCorrections
    \/ NoSave

SpecFetch == InitFetch /\ [][NextFetch]_vars

----------------------------------------------------------------------------
(* The classifier alone, on every title of the pool                        *)

InitClassify ==
    /\ text \in TitlesUpTo(MaxFrags)
    /\ category \in Topics
    /\ label = Unset
    /\ AppStart({[u \in Urls |-> << >>]}, {NoFile}, Now0)

\* classify_governance_sentiment(text, category)
Classify ==
    /\ label = Unset
    /\ label' = classify_governance_sentiment(text, category)
    /\ UNCHANGED <<text, category>>
    /\ UNCHANGED appVars

NextClassify == Classify

SpecClassify == InitClassify /\ [][NextClassify]_vars

----------------------------------------------------------------------------
(* What the claims say about one fetch_news call, read off the history     *)

\* a whole number of days, truncated
WholeDays(ticks) ==
    IF ticks >= 0 THEN ticks \div Day ELSE 0 - ((0 - ticks) \div Day)

\* the entry logged at l was inside the age window when it was processed
Passes(l) ==
    /\ l.entry.published.wf
    /\ WholeDays(l.at - l.entry.published.t) <= days_filter

\* the label the specification gives a title (section 4.2)
TopicLabel(title, cat) ==
    IF cat = GovtAnalysis
    THEN IF HasAny(title, MisgovernanceWords) THEN Misgovernance
         ELSE IF HasAny(title, GoodGovernanceWords) THEN GoodGovernance
         ELSE None
    ELSE IF HasAny(title, StateWords) THEN AntiState
         ELSE IF HasAny(title, CentralWords) THEN AntiCentral
         ELSE GeneralProtest

\* an earlier entry of the call had the same title and passed the age filter
SeenBefore(i) ==
    \E j \in 1..(i - 1) : log[j].entry.title = log[i].entry.title /\ Passes(log[j])

Survives(i) ==
    /\ Passes(log[i])
    /\ ~SeenBefore(i)
    /\ TopicLabel(log[i].entry.title, selected_category) # None

RECURSIVE SurvivorRows(_)
\* the rows of the survivors among the first n entries, in the order processed
SurvivorRows(n) ==
    IF n = 0 THEN << >>
    ELSE IF Survives(n)
         THEN Append(SurvivorRows(n - 1),
                     [Category |-> selected_category,
                      Title |-> log[n].entry.title,
                      PublishedDate |-> log[n].entry.published.t \div Day,
                      URL |-> log[n].entry.link,
                      Sentiment |-> TopicLabel(log[n].entry.title, selected_category)])
         ELSE SurvivorRows(n - 1)

RECURSIVE Concat(_, _)
\* the entries of the feeds of a topic, in the order the urls are configured
Concat(us, k) == IF k = 0 THEN << >> ELSE Concat(us, k - 1) \o feeds[us[k]]

\* the running call has just returned a table it computed
FreshlyReturned == pc \in {"tab1_show", "tab2_show"} /\ retrieved > 0

\* C3: no two rows of the returned table have the same title, and the row of
\* a title is built from the first entry with that title that passed the age
\* filter: its published date and link are the ones in the row.
C3_FirstOccurrenceWins ==
    FreshlyReturned =>
        LET table == fetched.table IN
        /\ \A a, b \in DOMAIN table : table[a].Title = table[b].Title => a = b
        /\ \A a \in DOMAIN table :
              \E i \in DOMAIN log :
                 /\ log[i].entry.title = table[a].Title
                 /\ Passes(log[i])
                 /\ ~SeenBefore(i)
                 /\ table[a].URL = log[i].entry.link
                 /\ table[a].PublishedDate = log[i].entry.published.t \div Day

\* a later entry repeats the title of the row, with another date and link
C3_Witness ==
    /\ FreshlyReturned
    /\ Len(fetched.table) = 1
    /\ \E i, j \in DOMAIN log :
          /\ i < j
          /\ log[i].entry.title = log[j].entry.title
          /\ log[i].entry.link # log[j].entry.link
          /\ ~Passes(log[i])
          /\ Passes(log[j])
          /\ fetched.table[1].URL = log[j].entry.link

\* C5: the returned table has one row per surviving entry, in feed order:
\* the entries of an earlier url before those of a later one, and inside a
\* feed in the order of the feed.
C5_FeedOrder ==
    FreshlyReturned =>
        /\ [i \in DOMAIN log |-> log[i].entry] = Concat(urls, Len(urls))
        /\ fetched.table = SurvivorRows(Len(log))

\* one row from each url of the topic, the row of the first url first although
\* its entry is the younger one
C5_Witness ==
    /\ FreshlyReturned
    /\ selected_category = GovtAnalysis
    /\ Len(feeds[urls[1]]) = 1
    /\ Len(feeds[urls[2]]) = 1
    /\ Len(fetched.table) = 2
    /\ fetched.table[1].URL = feeds[urls[1]][1].link
    /\ fetched.table[2].URL = feeds[urls[2]][1].link
    /\ fetched.table[1].PublishedDate > fetched.table[2].PublishedDate

\* C9 as stated: a delay follows every entry but the last, whatever it is.
C9_DelayAfterEveryEntry ==
    FreshlyReturned => \A i \in 1..(Len(log) - 1) : log[i].slept

\* C9 as amended: the delay follows exactly the entries that passed the age
\* filter, the last one included, whether they gave a row, repeated a title
\* or had no label; an entry the age filter discards is followed by none.
\* The clock of the call has moved by one sleep for each of them.
C9_DelayAfterEntriesInWindow ==
    (pc \in {"fetch_url", "fetch_entry", "tab1_show", "tab2_show"} /\ retrieved > 0) =>
        /\ \A i \in DOMAIN log : log[i].slept <=> Passes(log[i])
        /\ now - called_at =
              SleepTicks * Cardinality({i \in DOMAIN log : Passes(log[i])})

\* an entry inside the window that gave no row was followed by the delay, an
\* entry outside of the window was not
C9_Witness ==
    /\ FreshlyReturned
    /\ \E i, j \in DOMAIN log :
          /\ Passes(log[i]) /\ log[i].slept /\ ~log[i].row
          /\ ~Passes(log[j]) /\ ~log[j].slept

\* C10: every row of the returned table has the topic as Category and one of
\* the topic's labels as Sentiment; an entry inside the window with a new
\* title adds no row only under Govt Analysis; the tab's isin() filter removes
\* no row, and the warning is shown exactly when the table is empty.
C10_RowsCarryTopicLabels ==
    /\ FreshlyReturned =>
          /\ \A a \in DOMAIN fetched.table :
                /\ fetched.table[a].Category = selected_category
                /\ fetched.table[a].Sentiment \in ExpectedLabels(selected_category)
          /\ \A i \in DOMAIN log :
                (Passes(log[i]) /\ ~SeenBefore(i) /\ ~log[i].row) =>
                    selected_category = GovtAnalysis
    /\ pc \in {"tab2", "editor", "button", "done"} =>
          /\ df_selected = fetched.table
          /\ warning <=> (fetched.table = << >>)

\* an entry with no label was dropped, the filter kept the one row there is
C10_Witness ==
    /\ pc = "tab2"
    /\ Len(log) = 2
    /\ Passes(log[1]) /\ ~log[1].row
    /\ Len(df_selected) = 1
    /\ ~warning

----------------------------------------------------------------------------
(* One entry at every age around the five windows of the selector          *)

BoundaryDays == {0} \cup time_options \cup {d + 1 : d \in time_options}

AgePublished ==
    {Ago(d, r) : d \in BoundaryDays, r \in {0, 1, Day - 1}}
        \cup {WellFormed(Now0 + 1), WellFormed(Now0 + Day)}

AgeFeeds ==
    {[u \in Urls |->
        IF u = search_queries[GovtAnalysis][2] THEN << >>
        ELSE <<Entry(DmkCorruption, p, "link1")>>] : p \in AgePublished}

InitAge == InitApp(AgeFeeds, {NoFile}, Now0)

NextAge ==
    \/ LoadFeedback
    \/ Tab1(time_options)
    \/ FetchFeed
    \/ FetchEntry
    \/ FetchNextUrl
    \/ FetchReturn
    \/ Tab1Show
    \/ Tab2(time_options)
    \/ Tab2Show
    \/ Editor({EmptyGrid})
    \/ SaveCorrections
    \/ NoSave

SpecAge == InitAge /\ [][NextAge]_vars

\* C4: an entry is kept by the age filter exactly when its age in whole days
\* is at most max_age_days; an entry exactly max_age_days old is kept and
\* gives a row, one of max_age_days + 1 days is not, for every window of the
\* selector.
C4_AgeBoundaryInclusive ==
    \A i \in DOMAIN log :
        LET age == log[i].at - log[i].entry.published.t IN
        /\ log[i].kept <=> (WholeDays(age) <= days_filter)
        /\ log[i].row <=> log[i].kept
        /\ age = days_filter * Day => log[i].row
        /\ age = (days_filter + 1) * Day => ~log[i].row
        /\ days_filter \in time_options

\* the entry is exactly 30 days old and has its row in the returned table
C4_Witness ==
    /\ FreshlyReturned
    /\ days_filter = 30
    /\ Len(log) = 1
    /\ log[1].at - log[1].entry.published.t = 30 * Day
    /\ Len(fetched.table) = 1

----------------------------------------------------------------------------
(* Several script runs: the memo, the clock and a changing upstream        *)

MaxRuns == 3

Minute == 60 * TicksPerSecond

CacheDays == {1, 10}

CacheContents == {
    <<Entry(DmkCorruption, Ago(5, 0), "link2")>>,
    <<Entry(TnRally, Malformed, "link6")>> }

\* between two runs: half an hour less a tick, or half an hour
CacheSpans == {ttl * TicksPerSecond - 1, ttl * TicksPerSecond}

InitCache == InitApp([Urls -> CacheContents], {NoFile}, Now0)

NextCache ==
    \/ LoadFeedback
    \/ Tab1(CacheDays)
    \/ FetchFeed
    \/ FetchEntry
    \/ FetchNextUrl
    \/ FetchReturn
    \/ Tab1Show
    \/ Tab2({10})
    \/ Tab2Show
    \/ Editor({EmptyGrid})
    \/ SaveCorrections
    \/ NoSave
    \/ Rerun(MaxRuns, CacheSpans)
    \/ FeedUpdate(CacheContents)

SpecCache == InitCache /\ [][NextCache]_vars

Returning == pc \in {"tab1_show", "tab2_show"}

C7_BadDateIsFatal ==
    /\ (\E i \in DOMAIN log : ~log[i].entry.published.wf) =>
          /\ pc \in {"crashed", "start", "tab1"}
          /\ fetched = NotReturned
          /\ ~cache[<<selected_category, days_filter>>].has
    /\ (Returning /\ prior.kind = "error") => retrieved = Len(urls)

\* the call before failed after it had collected a row; this one fetched again
C7_Witness ==
    /\ Returning
    /\ prior.kind = "error"
    /\ prior.lost # << >>
    /\ retrieved = Len(urls)
    /\ fetched.table # << >>

----------------------------------------------------------------------------
(* The correction table: edited, saved, and loaded by the next run         *)

MaxRows == 2
FeedbackRuns == 2

Good == <<"G","o","o","d">>

RowPool == {
    GridRow(StrCell(TnRally), StrCell(Good)),
    GridRow(StrCell(<<"a",",","\"","b","\"">>), NaNCell),
    GridRow(StrCell(<<"2","0","2","4">>), StrCell(<<"N","/","A">>)),
    GridRow(StrCell(<<"0","7">>), StrCell(Good)) }

RECURSIVE SeqsUpTo(_, _)
SeqsUpTo(pool, n) ==
    IF n = 0 THEN {<< >>} ELSE SeqsUpTo(pool, n - 1) \cup SeqsOfLen(pool, n)

\* files found at the first start: none, one written with a byte order mark,
\* one in ISO-8859-1 that is not valid UTF-8
FilePool == {
    NoFile,
    [exists |-> TRUE, utf8 |-> TRUE,
     text |-> <<BOM>> \o HeaderLine \o <<"T","N",",","G","o","o","d","\n">>],
    [exists |-> TRUE, utf8 |-> FALSE,
     text |-> HeaderLine \o <<"c","a","f","e-acute",",","G","o","o","d","\n">>] }

InitFeedback ==
    InitApp({[u \in Urls |-> <<Entry(DmkCorruption, Ago(5, 0), "link2")>>]},
            FilePool, Now0)

NextFeedback ==
    \/ LoadFeedback
    \/ Tab1({10})
    \/ FetchFeed
    \/ FetchEntry
    \/ FetchNextUrl
    \/ FetchReturn
    \/ Tab1Show
    \/ Tab2({10})
    \/ Tab2Show
    \/ Editor(SeqsUpTo(RowPool, MaxRows))
    \/ SaveCorrections
    \/ NoSave
    \/ Rerun(FeedbackRuns, {TicksPerSecond})

SpecFeedback == InitFeedback /\ [][NextFeedback]_vars

\* C8: when the script has loaded the correction file, the table has the rows
\* the grid held when it was last saved, in the same order and with the same
\* Title and Corrected Sentiment values, the empty grid included; with no
\* file the table is empty.
C8_SaveLoadRoundTrip ==
    pc = "tab1" =>
        /\ saved_grid.saved => feedback_df = saved_grid.grid
        /\ ~feedback_file.exists => feedback_df = EmptyGrid

====
